---- MODULE Spec2Model ----
(***************************************************************************)
(* A model of StoreTrip.js: an agent goes from home to the store, buys     *)
(* eggs, milk and a lighter, and returns home.  Every decision is a        *)
(* perceptron: a weighted sum of 0/1 inputs plus a bias, compared with a   *)
(* threshold.                                                              *)
(*                                                                         *)
(* Numbers.  The source computes in IEEE doubles.  Weights, biases,        *)
(* thresholds and weighted sums are modelled in tenths (0.7 is 7), money   *)
(* in cents (75 is 7500).  Every comparison the program makes (sum >=      *)
(* threshold, money < 40) has the same outcome in doubles as in this exact *)
(* arithmetic for every combination of draws and purchases; the closest    *)
(* case is 0.6 + 0.6 + (-0.2), which is exactly 1.0 in doubles.            *)
(***************************************************************************)
EXTENDS Integers, Sequences, FiniteSets, TLC

\* ------------------------------------------------------------------ bounds
\* longest input line the input provider types at the store prompt
MaxLineLen == 2

\* longest input or weight array handed to the evaluator on its own
MaxVecLen == 3

\* --------------------------------------------------------------- constants
initialMoney == 7500                     \* let money = 75
bus_bias == -2                           \* -0.2
busFareOut == 500                        \* money -= 5
taxiFareOut == 1000                      \* money -= 10
brand_name_item_threshold == 10          \* 1.0
taxi_spending_bias == -2                 \* -0.2 in the tookTaxi block
bus_spending_bias == 0                   \* 0 in the tookBus block
sales_tax_percent == 5                   \* 0.05, in hundredths
drinkLimit == 4000                       \* money < 40
drinkPrice == 600                        \* money -= 6
bus_choice_threshold == 13               \* 1.3
taxi_bias == -2                          \* -0.2
busFareHome == 500                       \* money -= 5
taxiFareHome == 1100                     \* money -= 11
moneyLowLimit == 4000                    \* money < 40 in takeTaxiOrBus

\* weights of the three perceptrons, in tenths
takeBusOrTaxi_weights == <<7, 5, 4, 3>>
store_weights == <<6, -3, 6>>
takeTaxiOrBus_weights == <<7, -5, 6, -3, 4>>

\* the six items of the store
localEggs == [item |-> "eggs", type |-> "local", price |-> 6]
brandNameEggs == [item |-> "eggs", type |-> "brand name", price |-> 8]
\* local milk entered with the name of the eggs
localMilk_asEggs == [item |-> "eggs", type |-> "local", price |-> 7]

localMilk == [item |-> "milk", type |-> "local", price |-> 7]
brandNameMilk == [item |-> "milk", type |-> "brand name", price |-> 9]
localLighter == [item |-> "lighter", type |-> "local", price |-> 3]
brandNameLighter == [item |-> "lighter", type |-> "brand name", price |-> 5]

\* ------------------------------------------------------------- input lines
\* characters the input provider can type; a line is a sequence of them
Chars == {"l", "L", "r", "R", "s", "S", "x"}

\* characters typed after the first one: the program distinguishes a longer
\* line from a direction only by their presence
TailChars == {"s", "L"}

\* the empty line, every single character, and longer lines
Lines ==
    {line \in UNION {[1..n -> Chars] : n \in 0..MaxLineLen} :
        \A i \in 2..Len(line) : line[i] \in TailChars}

\* a toLowerCase that leaves the line as typed
LowerChar_asTyped(c) == c

\* String.prototype.toLowerCase, character by character
LowerChar(c) ==
    CASE c = "L" -> "l"
      [] c = "R" -> "r"
      [] c = "S" -> "s"
      [] c = "X" -> "x"
      [] OTHER -> c

toLowerCase(line) == [i \in 1..Len(line) |-> LowerChar(line[i])]

\* ------------------------------------------------------------ pure helpers
\* getZeroOrOne(): Math.floor(Math.random() * 2)
getZeroOrOne == {0, 1}

\* Array.prototype.includes(x, fromIndex); fromIndex counts from 0
Includes(seq, x, fromIndex) == \E i \in (fromIndex + 1)..Len(seq) : seq[i] = x

\* an addEnvironment that keeps only the latest environment
addEnvironment_latest(sequence, env) == <<env>>

\* Agent.addEnvironment: this.environmentSequence.push(env)
addEnvironment(sequence, env) == Append(sequence, env)

\* Agent.addAction: this.actionSequence.push(choice)
addAction(sequence, choice) == Append(sequence, choice)

\* the for loop of summationOfInputsAndWeights, from index i on
RECURSIVE SumFrom(_, _, _, _)
SumFrom(sum, inputsArray, weightsArray, i) ==
    IF i > Len(inputsArray) THEN sum
    ELSE SumFrom(sum + inputsArray[i] * weightsArray[i], inputsArray, weightsArray, i + 1)

summationOfInputsAndWeights(sum, inputsArray, weightsArray, bias) ==
    SumFrom(sum, inputsArray, weightsArray, 1) + bias

\* ------------------------------------------------------------------- state
VARIABLES
    pc,                  \* position of the single thread of control
    environmentSequence, \* Agent.environmentSequence
    actionSequence,      \* Agent.actionSequence
    money,               \* in cents
    atHome, onTheStreets, atStore,
    tookBus, tookTaxi,
    gotEnergyDrink,
    branch,              \* which block of storeScenario runs: none, taxi, bus
    checkListIncomplete,
    shoppingCart,
    gotEggs, gotMilk, gotLighter,
    routeDecision,       \* the line read by the last prompt
    tookBusHome, tookTaxiHome,
    decision,            \* locals of the most recent perceptron evaluation
    draws,               \* number of getZeroOrOne() calls made so far
    message,             \* what the last iteration of the loop printed
    supplied             \* sections the input provider has typed so far

vars == <<pc, environmentSequence, actionSequence, money, atHome, onTheStreets,
          atStore, tookBus, tookTaxi, gotEnergyDrink, branch,
          checkListIncomplete, shoppingCart, gotEggs, gotMilk, gotLighter,
          routeDecision, tookBusHome, tookTaxiHome, decision, draws, message,
          supplied>>

storeVars == <<branch, checkListIncomplete, shoppingCart, gotEggs, gotMilk,
               gotLighter, routeDecision, message, supplied>>

outVars == <<tookBus, tookTaxi>>

homeVars == <<tookBusHome, tookTaxiHome>>

NoDecision ==
    [kind |-> "none", inputs |-> <<>>, weights |-> <<>>, bias |-> 0,
     threshold |-> 0, sum |-> 0]

\* the state after lines 39-88, 116-117, 215 and 603-604 have run
Init ==
    /\ pc = "home"
    /\ environmentSequence = <<TRUE>>
    /\ actionSequence = <<>>
    /\ money = initialMoney
    /\ atHome = TRUE
    /\ onTheStreets = FALSE
    /\ atStore = FALSE
    /\ tookBus = FALSE
    /\ tookTaxi = FALSE
    /\ gotEnergyDrink = FALSE
    /\ branch = "none"
    /\ checkListIncomplete = FALSE
    /\ shoppingCart = <<>>
    /\ gotEggs = FALSE
    /\ gotMilk = FALSE
    /\ gotLighter = FALSE
    /\ routeDecision = <<>>
    /\ tookBusHome = FALSE
    /\ tookTaxiHome = FALSE
    /\ decision = NoDecision
    /\ draws = 0
    /\ message = "none"
    /\ supplied = {}

\* --------------------------------------------------------- outbound transit
taxi_choice_threshold == 15

\* a comparison with a threshold of 1.4
TakesTaxi_low(sum) == sum >= 14

\* the comparison of line 166
TakesTaxi(sum) == sum >= taxi_choice_threshold

\* an outbound decision whose taxi branch also sets tookBus
takeBusOrTaxi_bothFlags ==
    /\ pc = "home"
    /\ \E weatherFactor \in getZeroOrOne, trafficFactor \in getZeroOrOne,
          busCrowdingFactor \in getZeroOrOne :
         LET cost_factor == 1
             inputs == <<cost_factor, weatherFactor, trafficFactor, busCrowdingFactor>>
             sum == summationOfInputsAndWeights(0, inputs, takeBusOrTaxi_weights, bus_bias)
         IN  /\ decision' = [kind |-> "out", inputs |-> inputs,
                             weights |-> takeBusOrTaxi_weights, bias |-> bus_bias,
                             threshold |-> taxi_choice_threshold, sum |-> sum]
             /\ IF TakesTaxi(sum)
                  THEN /\ money' = money - taxiFareOut
                       /\ tookTaxi' = TRUE
                       /\ actionSequence' = addAction(actionSequence, tookTaxi')
                       /\ tookBus' = TRUE
                  ELSE /\ money' = money - busFareOut
                       /\ tookBus' = TRUE
                       /\ actionSequence' = addAction(actionSequence, tookBus')
                       /\ UNCHANGED tookTaxi
    /\ atHome' = FALSE
    /\ environmentSequence' = addEnvironment(environmentSequence, TRUE)
    /\ onTheStreets' = FALSE
    /\ draws' = draws + 3
    /\ pc' = "arrived"
    /\ UNCHANGED <<atStore, gotEnergyDrink, storeVars, homeVars>>

takeBusOrTaxi ==
    /\ pc = "home"
    /\ \E weatherFactor \in getZeroOrOne, trafficFactor \in getZeroOrOne,
          busCrowdingFactor \in getZeroOrOne :
         LET cost_factor == 1
             inputs == <<cost_factor, weatherFactor, trafficFactor, busCrowdingFactor>>
             sum == summationOfInputsAndWeights(0, inputs, takeBusOrTaxi_weights, bus_bias)
         IN  /\ decision' = [kind |-> "out", inputs |-> inputs,
                             weights |-> takeBusOrTaxi_weights, bias |-> bus_bias,
                             threshold |-> taxi_choice_threshold, sum |-> sum]
             /\ IF TakesTaxi(sum)
                  THEN /\ money' = money - taxiFareOut
                       /\ tookTaxi' = TRUE
                       /\ actionSequence' = addAction(actionSequence, tookTaxi')
                       /\ UNCHANGED tookBus
                  ELSE /\ money' = money - busFareOut
                       /\ tookBus' = TRUE
                       /\ actionSequence' = addAction(actionSequence, tookBus')
                       /\ UNCHANGED tookTaxi
    /\ atHome' = FALSE
    /\ environmentSequence' = addEnvironment(environmentSequence, TRUE)
    /\ onTheStreets' = FALSE
    /\ draws' = draws + 3
    /\ pc' = "arrived"
    /\ UNCHANGED <<atStore, gotEnergyDrink, storeVars, homeVars>>

\* -------------------------------------------------------------------- store
\* a branch test on the erased value: includes(true)
StoreBranch_erased(actions, taxi, bus) ==
    IF Includes(actions, TRUE, 0) THEN "taxi"
    ELSE IF Includes(actions, bus, 0) THEN "bus"
    ELSE "none"

\* the block of storeScenario that runs, lines 222 and 394
StoreBranch(actions, taxi, bus) ==
    IF Includes(actions, taxi, 0) THEN "taxi"
    ELSE IF Includes(actions, bus, 0) THEN "bus"
    ELSE "none"

\* const spending_bias of the block that runs
spending_bias(b) == IF b = "taxi" THEN taxi_spending_bias ELSE bus_spending_bias

\* storeScenario up to the first prompt
enterStore ==
    /\ pc = "arrived"
    /\ atStore' = TRUE
    /\ environmentSequence' = addEnvironment(environmentSequence, atStore')
    /\ branch' = StoreBranch(actionSequence, tookTaxi, tookBus)
    /\ IF branch' = "none"
         THEN /\ pc' = "paid"
              /\ UNCHANGED <<checkListIncomplete, shoppingCart, gotEggs, gotMilk, gotLighter>>
         ELSE /\ pc' = "shopping"
              /\ checkListIncomplete' = TRUE
              /\ shoppingCart' = <<>>
              /\ gotEggs' = FALSE
              /\ gotMilk' = FALSE
              /\ gotLighter' = FALSE
    /\ UNCHANGED <<actionSequence, money, atHome, onTheStreets, outVars,
                   gotEnergyDrink, routeDecision, homeVars, decision, draws,
                   message, supplied>>

\* a guard that starts the search one entry too late: includes(flag, 2)
AlreadyHave_from2(actions, flag) == Includes(actions, flag, 2)

\* a guard on the erased value: includes(true, 1), "something was bought"
AlreadyHave_anything(actions, flag) == Includes(actions, TRUE, 1)

\* the membership test that guards a section, lines 245-355: includes(flag, 1)
AlreadyHave(actions, flag) == Includes(actions, flag, 1)

\* an exit test that forgets the lighter
ChecklistComplete_noLighter(actions, eggs, milk, lighter) ==
    /\ Includes(actions, eggs, 0)
    /\ Includes(actions, milk, 0)

\* an exit test satisfied by any one section
ChecklistComplete_any(actions, eggs, milk, lighter) ==
    \/ Includes(actions, eggs, 0)
    \/ Includes(actions, milk, 0)
    \/ Includes(actions, lighter, 0)

\* the test that ends the loop, lines 363-366
ChecklistComplete(actions, eggs, milk, lighter) ==
    /\ Includes(actions, eggs, 0)
    /\ Includes(actions, milk, 0)
    /\ Includes(actions, lighter, 0)

\* a strict comparison with the threshold
BuysBrandName_strict(sum) == sum > brand_name_item_threshold

\* the comparison of lines 265, 303 and 341
BuysBrandName(sum) == sum >= brand_name_item_threshold

\* a purchase perceptron whose bias grows with the purchases already made
PurchaseDecision_memory(b, localGoodsFactor) ==
    LET inputs == <<1, localGoodsFactor, 1>>
        bias == spending_bias(b) - Len(shoppingCart)
    IN  [kind |-> "purchase", inputs |-> inputs, weights |-> store_weights,
         bias |-> bias, threshold |-> brand_name_item_threshold,
         sum |-> summationOfInputsAndWeights(0, inputs, store_weights, bias)]

\* the perceptron of one purchase, lines 251-261
PurchaseDecision(b, localGoodsFactor) ==
    LET cost_factor == 1
        brand_name_factor == 1
        inputs == <<cost_factor, localGoodsFactor, brand_name_factor>>
    IN  [kind |-> "purchase", inputs |-> inputs, weights |-> store_weights,
         bias |-> spending_bias(b), threshold |-> brand_name_item_threshold,
         sum |-> summationOfInputsAndWeights(0, inputs, store_weights, spending_bias(b))]

\* lines 363-367: the check after an iteration that did not `continue`
ExitCheck ==
    /\ checkListIncomplete' =
         IF ChecklistComplete(actionSequence', gotEggs', gotMilk', gotLighter')
           THEN FALSE ELSE checkListIncomplete
    /\ pc' = IF checkListIncomplete' THEN "shopping" ELSE "checkout"

\* a purchase that records gotEggs before setting it
BuyEggs_pushFirst ==
    /\ \E localGoodsFactor \in getZeroOrOne :
         /\ decision' = PurchaseDecision(branch, localGoodsFactor)
         /\ IF BuysBrandName(decision'.sum)
              THEN /\ message' = "brand name"
                   /\ shoppingCart' = Append(shoppingCart, brandNameEggs)
              ELSE /\ message' = "local"
                   /\ shoppingCart' = Append(shoppingCart, localEggs)
    /\ gotEggs' = TRUE
    /\ actionSequence' = addAction(actionSequence, gotEggs)
    /\ draws' = draws + 1
    /\ UNCHANGED <<gotMilk, gotLighter>>
    /\ ExitCheck

\* lines 246-277
BuyEggs ==
    /\ \E localGoodsFactor \in getZeroOrOne :
         /\ decision' = PurchaseDecision(branch, localGoodsFactor)
         /\ IF BuysBrandName(decision'.sum)
              THEN /\ message' = "brand name"
                   /\ shoppingCart' = Append(shoppingCart, brandNameEggs)
              ELSE /\ message' = "local"
                   /\ shoppingCart' = Append(shoppingCart, localEggs)
    /\ gotEggs' = TRUE
    /\ actionSequence' = addAction(actionSequence, gotEggs')
    /\ draws' = draws + 1
    /\ UNCHANGED <<gotMilk, gotLighter>>
    /\ ExitCheck

\* lines 284-315
BuyMilk ==
    /\ \E localGoodsFactor \in getZeroOrOne :
         /\ decision' = PurchaseDecision(branch, localGoodsFactor)
         /\ IF BuysBrandName(decision'.sum)
              THEN /\ message' = "brand name"
                   /\ shoppingCart' = Append(shoppingCart, brandNameMilk)
              ELSE /\ message' = "local"
                   /\ shoppingCart' = Append(shoppingCart, localMilk)
    /\ gotMilk' = TRUE
    /\ actionSequence' = addAction(actionSequence, gotMilk')
    /\ draws' = draws + 1
    /\ UNCHANGED <<gotEggs, gotLighter>>
    /\ ExitCheck

\* lines 322-353
BuyLighter ==
    /\ \E localGoodsFactor \in getZeroOrOne :
         /\ decision' = PurchaseDecision(branch, localGoodsFactor)
         /\ IF BuysBrandName(decision'.sum)
              THEN /\ message' = "brand name"
                   /\ shoppingCart' = Append(shoppingCart, brandNameLighter)
              ELSE /\ message' = "local"
                   /\ shoppingCart' = Append(shoppingCart, localLighter)
    /\ gotLighter' = TRUE
    /\ actionSequence' = addAction(actionSequence, gotLighter')
    /\ draws' = draws + 1
    /\ UNCHANGED <<gotEggs, gotMilk>>
    /\ ExitCheck

\* a backtrack that records the visit as one more action
Backtrack_recorded ==
    /\ message' = "backtrack"
    /\ actionSequence' = addAction(actionSequence, TRUE)
    /\ UNCHANGED <<pc, checkListIncomplete, shoppingCart, gotEggs, gotMilk,
                   gotLighter, decision, draws>>

\* lines 279-281, 317-319, 355-357: `continue` skips the check of line 363
Backtrack ==
    /\ message' = "backtrack"
    /\ UNCHANGED <<pc, checkListIncomplete, shoppingCart, gotEggs, gotMilk,
                   gotLighter, actionSequence, decision, draws>>

\* lines 359-361, then the check of line 363
InvalidInput ==
    /\ message' = "error"
    /\ UNCHANGED <<shoppingCart, gotEggs, gotMilk, gotLighter, actionSequence,
                   decision, draws>>
    /\ ExitCheck

\* what the input provider typed, as a section of the store
Typed(line) ==
    IF line = <<"l">> \/ line = <<"L">> THEN {"eggs"}
    ELSE IF line = <<"r">> \/ line = <<"R">> THEN {"milk"}
    ELSE IF line = <<"s">> \/ line = <<"S">> THEN {"lighter"}
    ELSE {}

\* a comparison of the first character only
IsRoute_firstChar(d, c) == Len(d) >= 1 /\ d[1] = c

\* routeDecision.toLowerCase() === 'l' (or 'r', 's')
IsRoute(d, c) == d = <<c>>

\* one iteration of the while loop on the line read at the prompt
ReadLine(line) ==
    /\ pc = "shopping"
    /\ checkListIncomplete
    /\ routeDecision' = line
    /\ supplied' = supplied \cup Typed(line)
    /\ LET d == toLowerCase(routeDecision') IN
         IF IsRoute(d, "l") /\ ~AlreadyHave(actionSequence, gotEggs) THEN BuyEggs
         ELSE IF IsRoute(d, "l") /\ AlreadyHave(actionSequence, gotEggs) THEN Backtrack
         ELSE IF IsRoute(d, "r") /\ ~AlreadyHave(actionSequence, gotMilk) THEN BuyMilk
         ELSE IF IsRoute(d, "r") /\ AlreadyHave(actionSequence, gotMilk) THEN Backtrack
         ELSE IF IsRoute(d, "s") /\ ~AlreadyHave(actionSequence, gotLighter) THEN BuyLighter
         ELSE IF IsRoute(d, "s") /\ AlreadyHave(actionSequence, gotLighter) THEN Backtrack
         ELSE InvalidInput
    /\ UNCHANGED <<environmentSequence, money, atHome, onTheStreets, atStore,
                   outVars, gotEnergyDrink, branch, homeVars>>

chooseRoute == \E line \in Lines : ReadLine(line)

\* the sum of the prices in the cart, lines 369-373, from index i on
RECURSIVE SubTotalFrom(_, _, _)
SubTotalFrom(shoppingSubTotal, cart, i) ==
    IF i > Len(cart) THEN shoppingSubTotal
    ELSE SubTotalFrom(shoppingSubTotal + cart[i].price, cart, i + 1)

\* a total without the sales tax
TotalPrice_noTax(cart) == SubTotalFrom(0, cart, 1) * 100

\* a total with the wrong sign, as after money += totalPrice
TotalPrice_refund(cart) ==
    LET shoppingSubTotal == SubTotalFrom(0, cart, 1)
    IN  0 - (shoppingSubTotal * 100 + shoppingSubTotal * sales_tax_percent)

\* a total with a sales tax of one half
TotalPrice_tax50(cart) ==
    LET shoppingSubTotal == SubTotalFrom(0, cart, 1)
    IN  shoppingSubTotal * 100 + shoppingSubTotal * 50

\* a total with a sales tax of one tenth
TotalPrice_tax10(cart) ==
    LET shoppingSubTotal == SubTotalFrom(0, cart, 1)
    IN  shoppingSubTotal * 100 + shoppingSubTotal * 10

\* totalPrice in cents: subtotal + subtotal * 0.05, lines 375-377
TotalPrice(cart) ==
    LET shoppingSubTotal == SubTotalFrom(0, cart, 1)
        salesTaxofSubTotal == shoppingSubTotal * sales_tax_percent
    IN  shoppingSubTotal * 100 + salesTaxofSubTotal

\* lines 369-381
checkout ==
    /\ pc = "checkout"
    /\ money' = money - TotalPrice(shoppingCart)
    /\ pc' = "drink"
    /\ UNCHANGED <<environmentSequence, actionSequence, atHome, onTheStreets,
                   atStore, outVars, gotEnergyDrink, storeVars, homeVars,
                   decision, draws>>

\* a drink refused below 45
SkipsDrink_45(m) == m < 4500

\* the comparison of line 383
SkipsDrink(m) == m < drinkLimit

\* lines 383-392
energyDrink ==
    /\ pc = "drink"
    /\ IF SkipsDrink(money)
         THEN UNCHANGED <<money, gotEnergyDrink>>
         ELSE /\ money' = money - drinkPrice
              /\ gotEnergyDrink' = TRUE
    /\ pc' = "paid"
    /\ UNCHANGED <<environmentSequence, actionSequence, atHome, onTheStreets,
                   atStore, outVars, storeVars, homeVars, decision, draws>>

\* ----------------------------------------------------------- return transit
\* a bus home chosen from a sum of 1.2
TakesBusHome_12(sum) == sum >= 12

\* the comparison of line 660
TakesBusHome(sum) == sum >= bus_choice_threshold

\* a money-low test against 45
MoneyUnder40_45(m) == IF m < 4500 THEN 1 ELSE 0

\* a money-low test against the 35 of the closing summary
MoneyUnder40_35(m) == IF m < 3500 THEN 1 ELSE 0

\* lines 639-643
MoneyUnder40(m) == IF m < moneyLowLimit THEN 1 ELSE 0

\* a return decision that draws its money input as a fourth random value
takeTaxiOrBus_fourDraws ==
    /\ pc = "paid"
    /\ \E weatherFactor \in getZeroOrOne, trafficFactor \in getZeroOrOne,
          busCrowdingFactor \in getZeroOrOne, moneyFactor \in getZeroOrOne :
         LET cost_factor == 1
             inputs == <<cost_factor, weatherFactor, trafficFactor,
                         busCrowdingFactor, moneyFactor>>
             sum == summationOfInputsAndWeights(0, inputs, takeTaxiOrBus_weights, taxi_bias)
         IN  /\ decision' = [kind |-> "return", inputs |-> inputs,
                             weights |-> takeTaxiOrBus_weights, bias |-> taxi_bias,
                             threshold |-> bus_choice_threshold, sum |-> sum]
             /\ IF TakesBusHome(sum)
                  THEN /\ money' = money - busFareHome
                       /\ tookBusHome' = TRUE
                       /\ actionSequence' = addAction(actionSequence, tookBusHome')
                       /\ UNCHANGED tookTaxiHome
                  ELSE /\ money' = money - taxiFareHome
                       /\ tookTaxiHome' = TRUE
                       /\ actionSequence' = addAction(actionSequence, tookTaxiHome')
                       /\ UNCHANGED tookBusHome
    /\ atStore' = FALSE
    /\ environmentSequence' = addEnvironment(environmentSequence, TRUE)
    /\ onTheStreets' = FALSE
    /\ draws' = draws + 4
    /\ pc' = "returned"
    /\ UNCHANGED <<atHome, outVars, gotEnergyDrink, storeVars>>

takeTaxiOrBus ==
    /\ pc = "paid"
    /\ \E weatherFactor \in getZeroOrOne, trafficFactor \in getZeroOrOne,
          busCrowdingFactor \in getZeroOrOne :
         LET cost_factor == 1
             inputs == <<cost_factor, weatherFactor, trafficFactor,
                         busCrowdingFactor, MoneyUnder40(money)>>
             sum == summationOfInputsAndWeights(0, inputs, takeTaxiOrBus_weights, taxi_bias)
         IN  /\ decision' = [kind |-> "return", inputs |-> inputs,
                             weights |-> takeTaxiOrBus_weights, bias |-> taxi_bias,
                             threshold |-> bus_choice_threshold, sum |-> sum]
             /\ IF TakesBusHome(sum)
                  THEN /\ money' = money - busFareHome
                       /\ tookBusHome' = TRUE
                       /\ actionSequence' = addAction(actionSequence, tookBusHome')
                       /\ UNCHANGED tookTaxiHome
                  ELSE /\ money' = money - taxiFareHome
                       /\ tookTaxiHome' = TRUE
                       /\ actionSequence' = addAction(actionSequence, tookTaxiHome')
                       /\ UNCHANGED tookBusHome
    /\ atStore' = FALSE
    /\ environmentSequence' = addEnvironment(environmentSequence, TRUE)
    /\ onTheStreets' = FALSE
    /\ draws' = draws + 3
    /\ pc' = "returned"
    /\ UNCHANGED <<atHome, outVars, gotEnergyDrink, storeVars>>

\* lines 678-701: back home, the closing summary
summary ==
    /\ pc = "returned"
    /\ atHome' = TRUE
    /\ pc' = "done"
    /\ UNCHANGED <<environmentSequence, actionSequence, money, onTheStreets,
                   atStore, outVars, gotEnergyDrink, storeVars, homeVars,
                   decision, draws>>

Next ==
    \/ takeBusOrTaxi
    \/ enterStore
    \/ chooseRoute
    \/ checkout
    \/ energyDrink
    \/ takeTaxiOrBus
    \/ summary

Spec == Init /\ [][Next]_vars

\* ------------------------------------------------- the evaluator on its own
\* summationOfInputsAndWeights reads weightsArray[i] for every index of
\* inputsArray; past the end of weightsArray that is undefined, the product
\* is NaN, and NaN stays NaN through += and + bias
SumIsNaN(inputsArray, weightsArray) ==
    \E i \in 1..Len(inputsArray) : i > Len(weightsArray)

\* the value returned when it is a number: the loop runs over the indices of
\* inputsArray only, so weights past the end of inputsArray are not read
SumValue(inputsArray, weightsArray, bias) ==
    summationOfInputsAndWeights(0, inputsArray,
        SubSeq(weightsArray, 1, Len(inputsArray)), bias)

\* sum >= threshold as the call sites evaluate it: false when sum is NaN
MeetsThreshold(isNaN, sum, threshold) == IF isNaN THEN FALSE ELSE sum >= threshold

\* arrays the evaluator can be handed
InputArrays == UNION {[1..n -> {0, 1}] : n \in 0..MaxVecLen}

WeightArrays == UNION {[1..n -> {-3, 6, 7}] : n \in 0..MaxVecLen}

\* a decision specification before it is evaluated
EvalInit ==
    /\ pc = "eval"
    /\ decision \in {[kind |-> "spec", inputs |-> i, weights |-> w, bias |-> b,
                       threshold |-> t, sum |-> 0] :
                         i \in InputArrays, w \in WeightArrays,
                         b \in {bus_bias, bus_spending_bias},
                         t \in {brand_name_item_threshold, bus_choice_threshold}}
    /\ environmentSequence = <<TRUE>>
    /\ actionSequence = <<>>
    /\ money = initialMoney
    /\ atHome = TRUE
    /\ onTheStreets = FALSE
    /\ atStore = FALSE
    /\ tookBus = FALSE
    /\ tookTaxi = FALSE
    /\ gotEnergyDrink = FALSE
    /\ branch = "none"
    /\ checkListIncomplete = FALSE
    /\ shoppingCart = <<>>
    /\ gotEggs = FALSE
    /\ gotMilk = FALSE
    /\ gotLighter = FALSE
    /\ routeDecision = <<>>
    /\ tookBusHome = FALSE
    /\ tookTaxiHome = FALSE
    /\ draws = 0
    /\ message = "none"
    /\ supplied = {}

\* sum = summationOfInputsAndWeights(sum, inputs, weights, bias) followed by
\* if (sum >= threshold): the call returns and a branch is taken whatever
\* the lengths of the two arrays are
evaluate ==
    /\ pc = "eval"
    /\ LET isNaN == SumIsNaN(decision.inputs, decision.weights)
           sum == IF isNaN THEN 0
                  ELSE SumValue(decision.inputs, decision.weights, decision.bias)
       IN  decision' = [kind |-> "eval", inputs |-> decision.inputs,
                        weights |-> decision.weights, bias |-> decision.bias,
                        threshold |-> decision.threshold, sum |-> sum,
                        isNaN |-> isNaN,
                        outcome |-> MeetsThreshold(isNaN, sum, decision.threshold)]
    /\ pc' = "evaluated"
    /\ UNCHANGED <<environmentSequence, actionSequence, money, atHome,
                   onTheStreets, atStore, outVars, gotEnergyDrink, storeVars,
                   homeVars, draws>>

EvalNext == evaluate

EvalSpec == EvalInit /\ [][EvalNext]_vars

\* the program runs on whenever it can, and the input provider eventually
\* types each of l, r and s at the prompt
FairSpec ==
    /\ Spec
    /\ WF_vars(takeBusOrTaxi)
    /\ WF_vars(enterStore)
    /\ WF_vars(ReadLine(<<"l">>))
    /\ WF_vars(ReadLine(<<"r">>))
    /\ WF_vars(ReadLine(<<"s">>))
    /\ WF_vars(checkout)
    /\ WF_vars(energyDrink)
    /\ WF_vars(takeTaxiOrBus)
    /\ WF_vars(summary)

\* ------------------------------------------------------------- properties
Sections == {"eggs", "milk", "lighter"}

\* the checklist flag of a section
Flag(sec) ==
    CASE sec = "eggs" -> gotEggs
      [] sec = "milk" -> gotMilk
      [] sec = "lighter" -> gotLighter

\* how many items of a name the cart holds
CountItem(cart, name) == Cardinality({i \in 1..Len(cart) : cart[i].item = name})

\* one of the two blocks of storeScenario has left its while loop
LoopExited == branch # "none" /\ pc \in {"checkout", "drink", "paid", "returned", "done"}

\* the step reads a line at the store prompt
ReadsLine == pc = "shopping"

\* C1: once the loop has exited (checkout has started), gotEggs, gotMilk and
\* gotLighter are all true and the cart holds an item of each section.
C1_NoPrematureExit ==
    LoopExited =>
        /\ gotEggs /\ gotMilk /\ gotLighter
        /\ \A sec \in Sections : CountItem(shoppingCart, sec) >= 1

C1_Witness ==
    /\ pc = "checkout"
    /\ gotEggs /\ gotMilk /\ gotLighter
    /\ Len(shoppingCart) = 3

\* C2: the cart never holds two items of the same name (it holds one exactly
\* when the section's flag is true), and a flag that is true stays true.
C2_NoItemTwice ==
    /\ [](\A sec \in Sections :
             CountItem(shoppingCart, sec) = IF Flag(sec) THEN 1 ELSE 0)
    /\ [][/\ gotEggs => gotEggs'
          /\ gotMilk => gotMilk'
          /\ gotLighter => gotLighter']_vars

\* l typed again after the eggs and the milk were bought
C2_Witness ==
    /\ pc = "shopping"
    /\ Len(shoppingCart) = 2
    /\ shoppingCart[1].item = "eggs"
    /\ shoppingCart[2].item = "milk"
    /\ routeDecision = <<"l">>
    /\ message = "backtrack"

\* C3: while a block of storeScenario runs, the loop has exited exactly when
\* each of l, r and s has been typed (in either case, in any order, whatever
\* else was typed), and when the input provider eventually types each of them
\* the program reaches its closing summary.
C3_ExitsWhenAllChosen ==
    /\ [](branch # "none" => (LoopExited <=> supplied = Sections))
    /\ [](pc = "shopping" => Cardinality(supplied) = Len(shoppingCart))
    /\ <>(pc = "done")

\* a complete run in the order s, l, r
C3_Witness ==
    /\ pc = "done"
    /\ shoppingCart[1].item = "lighter"
    /\ shoppingCart[2].item = "eggs"
    /\ shoppingCart[3].item = "milk"

\* C4: a line that names a section is answered with "already have what I
\* need" exactly when the section's flag is true; otherwise a purchase
\* decision is made for it (one random draw, the flag set).
C4_RejectedIffSatisfied ==
    [][ReadsLine =>
         \A sec \in Sections :
            Typed(routeDecision') = {sec} =>
               /\ (message' = "backtrack") <=> Flag(sec)
               /\ ~Flag(sec) =>
                     /\ message' \in {"brand name", "local"}
                     /\ draws' = draws + 1
                     /\ decision'.kind = "purchase"
               /\ Flag(sec) => decision' = decision /\ draws' = draws]_vars

\* r is answered with a purchase although the outbound outcome and the eggs
\* are in the action history
C4_Witness ==
    /\ pc = "shopping"
    /\ routeDecision = <<"r">>
    /\ Len(actionSequence) = 3
    /\ shoppingCart[1].item = "eggs"
    /\ shoppingCart[2].item = "milk"
    /\ message \in {"brand name", "local"}

\* C5: an iteration that reads the direction of a section whose flag is true
\* changes neither the cart, the flags, the wallet, the two histories nor the
\* number of random draws, and the loop goes on.
C5_RevisitMutatesNothing ==
    [][ReadsLine =>
         \A sec \in Sections :
            (Typed(routeDecision') = {sec} /\ Flag(sec)) =>
               /\ UNCHANGED <<shoppingCart, gotEggs, gotMilk, gotLighter, money,
                              actionSequence, environmentSequence, draws>>
               /\ pc' = "shopping"
               /\ checkListIncomplete']_vars

\* S typed again after the lighter was bought
C5_Witness ==
    /\ pc = "shopping"
    /\ gotLighter
    /\ routeDecision = <<"S">>
    /\ message = "backtrack"
    /\ Len(shoppingCart) = 1

\* C6: an iteration that reads a line other than l, r or s (in either case)
\* changes neither the cart, the flags, the wallet nor the two histories,
\* makes no purchase decision, reports the error and prompts again.
C6_InvalidInputRecovered ==
    [][ReadsLine =>
         (Typed(routeDecision') = {} =>
            /\ UNCHANGED <<shoppingCart, gotEggs, gotMilk, gotLighter, money,
                           actionSequence, environmentSequence, draws, decision>>
            /\ message' = "error"
            /\ pc' = "shopping"
            /\ checkListIncomplete')]_vars

\* a two-character line that starts with a valid direction
C6_Witness ==
    /\ pc = "shopping"
    /\ routeDecision = <<"l", "s">>
    /\ message = "error"
    /\ Len(shoppingCart) = 2

\* the item bought last
LastItem == shoppingCart[Len(shoppingCart)]

\* C7: after every purchase decision, in both blocks and for each item, the
\* item put in the cart is the brand name one when localAvailable was 0 and
\* the local one when it was 1.
C7_BrandIffNoLocal ==
    (decision.kind = "purchase") =>
        /\ Len(decision.inputs) = 3
        /\ decision.inputs[2] = 0 => LastItem.type = "brand name"
        /\ decision.inputs[2] = 1 => LastItem.type = "local"
        /\ LastItem.price =
             (CASE LastItem.item = "eggs" -> 6
                [] LastItem.item = "milk" -> 7
                [] LastItem.item = "lighter" -> 3)
             + (IF decision.inputs[2] = 0 THEN 2 ELSE 0)

\* arrived by taxi, no local lighter: the sum meets the threshold exactly
C7_Witness ==
    /\ decision.kind = "purchase"
    /\ branch = "taxi"
    /\ decision.inputs[2] = 0
    /\ LastItem = brandNameLighter

\* C8: every purchase decision uses the bias -0.2 exactly when the outbound
\* outcome was taxi and 0 exactly when it was bus, and the block of
\* storeScenario that runs is the one of the outbound mode.
C8_BiasFollowsOutboundMode ==
    /\ (decision.kind = "purchase") =>
          /\ (decision.bias = -2) <=> (tookTaxi /\ ~tookBus)
          /\ (decision.bias = 0) <=> (tookBus /\ ~tookTaxi)
    /\ (pc \notin {"home", "arrived"}) =>
          /\ (branch = "taxi") <=> (tookTaxi /\ ~tookBus)
          /\ (branch = "bus") <=> (tookBus /\ ~tookTaxi)

C8_Witness ==
    /\ decision.kind = "purchase"
    /\ tookBus
    /\ branch = "bus"
    /\ decision.bias = 0
    /\ Len(shoppingCart) = 3

\* C9: after the outbound decision on the draws (weather, traffic,
\* busCrowding), the agent took the taxi and paid 10 when
\* 0.7 + 0.5*weather + 0.4*traffic + 0.3*busCrowding - 0.2 >= 1.5, and
\* otherwise took the bus and paid 5; [1,0,0,0] gives bus, [1,1,1,1] taxi.
C9_OutboundTransit ==
    (decision.kind = "out") =>
        LET weather == decision.inputs[2]
            traffic == decision.inputs[3]
            busCrowding == decision.inputs[4]
        IN  /\ decision.inputs[1] = 1
            /\ IF 7 + 5 * weather + 4 * traffic + 3 * busCrowding - 2 >= 15
                 THEN tookTaxi /\ ~tookBus /\ money = 7500 - 1000
                 ELSE tookBus /\ ~tookTaxi /\ money = 7500 - 500
            /\ decision.inputs = <<1, 0, 0, 0>> => tookBus
            /\ decision.inputs = <<1, 1, 1, 1>> => tookTaxi

C9_Witness ==
    /\ pc = "arrived"
    /\ decision.inputs = <<1, 1, 1, 1>>
    /\ tookTaxi
    /\ money = 6500

\* C10: the return decision sets moneyLow to 1 exactly when the wallet is
\* below 40 at that moment; the agent takes the bus and pays 5 when
\* 0.7 - 0.5*weather + 0.6*traffic - 0.3*busCrowding + 0.4*moneyLow - 0.2
\* >= 1.3, and otherwise takes the taxi and pays 11.
C10_ReturnTransit ==
    [][pc = "paid" =>
         LET weather == decision'.inputs[2]
             traffic == decision'.inputs[3]
             busCrowding == decision'.inputs[4]
             moneyLow == decision'.inputs[5]
         IN  /\ decision'.kind = "return"
             /\ (moneyLow = 1) <=> (money < 4000)
             /\ moneyLow \in {0, 1}
             /\ IF 7 - 5 * weather + 6 * traffic - 3 * busCrowding
                     + 4 * moneyLow - 2 >= 13
                  THEN tookBusHome' /\ ~tookTaxiHome' /\ money' = money - 500
                  ELSE tookTaxiHome' /\ ~tookBusHome' /\ money' = money - 1100]_vars

\* low on money after the drink, and the bus home
C10_Witness ==
    /\ pc = "returned"
    /\ decision.inputs[5] = 1
    /\ gotEnergyDrink
    /\ tookBusHome

\* the price of an item of the store, in cents
PriceInCents(it) ==
    100 * ((CASE it.item = "eggs" -> 6
              [] it.item = "milk" -> 7
              [] it.item = "lighter" -> 3)
           + (IF it.type = "brand name" THEN 2 ELSE 0))

\* the wallet when the agent enters the store
WalletAtStore == IF tookTaxi THEN 6500 ELSE 7000

\* C11: the wallet is untouched while the agent shops, and the checkout step
\* debits it once by the subtotal of the cart plus 5% of it (105 cents per
\* dollar of subtotal); brand name eggs, milk and lighter cost 23.10.
C11_CheckoutArithmetic ==
    /\ [](pc = "shopping" \/ pc = "checkout" => money = WalletAtStore)
    /\ [](pc = "drink" =>
             /\ Len(shoppingCart) = 3
             /\ 100 * (WalletAtStore - money) =
                  105 * (PriceInCents(shoppingCart[1]) + PriceInCents(shoppingCart[2])
                         + PriceInCents(shoppingCart[3]))
             /\ (\A i \in 1..3 : shoppingCart[i].type = "brand name")
                   => money = WalletAtStore - 2310)
    /\ [][pc = "checkout" => pc' = "drink" /\ money' < money]_vars

\* checked out with three brand name items after the bus
C11_Witness ==
    /\ pc = "drink"
    /\ \A i \in 1..3 : shoppingCart[i].type = "brand name"
    /\ money = 7000 - 2310

\* C12: the step after checkout buys the drink (6 off the wallet,
\* gotEnergyDrink set) exactly when the wallet is at least 40, leaves both
\* unchanged otherwise, and makes no random draw.
C12_EnergyDrinkRule ==
    [][pc = "drink" =>
         /\ gotEnergyDrink' <=> (money >= 4000)
         /\ (money >= 4000) => money' = money - 600
         /\ (money < 4000) => money' = money /\ gotEnergyDrink' = gotEnergyDrink
         /\ draws' = draws
         /\ ~gotEnergyDrink]_vars

\* the drink bought from the smallest wallet a checkout leaves, 41.90
C12_Witness ==
    /\ pc = "paid"
    /\ gotEnergyDrink
    /\ money = 4190 - 600

\* C13: no step increases money, so money is never above 75.
C13_WalletMonotone ==
    /\ [][money' <= money]_vars
    /\ [](money <= 7500)

C13_Witness ==
    /\ pc = "done"
    /\ money < 7500
    /\ money = 7000 - 1680 - 600 - 1100

\* the place of a program position in the order of the run
Rank(p) ==
    CASE p = "home" -> 0
      [] p = "arrived" -> 1
      [] p = "shopping" -> 2
      [] p = "checkout" -> 3
      [] p = "drink" -> 4
      [] p = "paid" -> 5
      [] p = "returned" -> 6
      [] p = "done" -> 7

\* the step evaluates a perceptron
Decides == draws' # draws \/ decision' # decision

\* C14: every run goes through its positions in one order: the outbound
\* decision (three draws), then prompts with exactly three purchase decisions
\* (one draw each), then checkout, then the drink, then the return decision
\* (three draws), then the summary.  A decision is made only at the outbound
\* step, at a prompt or at the return step, and what it compares with its
\* threshold is the sum over the values drawn in that same decision.
C14_FixedOrder ==
    /\ [][\/ Rank(pc') = Rank(pc) + 1
          \/ pc = "shopping" /\ pc' = "shopping"]_vars
    /\ [][Decides =>
            \/ /\ pc = "home" /\ draws = 0 /\ draws' = 3
               /\ decision'.kind = "out"
               /\ decision'.sum = 7 * decision'.inputs[1] + 5 * decision'.inputs[2]
                                  + 4 * decision'.inputs[3] + 3 * decision'.inputs[4] - 2
               /\ tookTaxi' <=> (decision'.sum >= 15)
            \/ /\ pc = "shopping" /\ draws \in 3..5 /\ draws' = draws + 1
               /\ decision'.kind = "purchase"
               /\ Len(shoppingCart') = draws' - 3
               /\ decision'.sum = 6 * decision'.inputs[1] - 3 * decision'.inputs[2]
                                  + 6 * decision'.inputs[3] + decision'.bias
               /\ (shoppingCart'[Len(shoppingCart')].type = "brand name")
                     <=> (decision'.sum >= 10)
            \/ /\ pc = "paid" /\ draws = 6 /\ draws' = 9
               /\ decision'.kind = "return"
               /\ decision'.sum = 7 * decision'.inputs[1] - 5 * decision'.inputs[2]
                                  + 6 * decision'.inputs[3] - 3 * decision'.inputs[4]
                                  + 4 * decision'.inputs[5] - 2
               /\ tookBusHome' <=> (decision'.sum >= 13)]_vars
    /\ [](pc = "home" => draws = 0 /\ Len(actionSequence) = 0)
    /\ [](pc = "arrived" => draws = 3 /\ Len(actionSequence) = 1)
    /\ [](pc \in {"checkout", "drink", "paid"} =>
             draws = 6 /\ Len(actionSequence) = 4 /\ Len(shoppingCart) = 3)
    /\ [](pc \in {"returned", "done"} => draws = 9 /\ Len(actionSequence) = 5)

\* the end of a run: one outbound, three purchase and one return decision
C14_Witness ==
    /\ pc = "done"
    /\ draws = 9
    /\ Len(actionSequence) = 5
    /\ decision.kind = "return"
    /\ gotEnergyDrink

\* C15: at the end of a run home -> street -> store -> street -> home the
\* environment history has the five entries Home, Street, Store, Street,
\* Home, each telling which environment was entered: the first and the last
\* entry are the same, the second and the fourth are the same, and the
\* entries of the three environments differ from each other.
C15_FiveEnvironments ==
    (pc = "done") =>
        /\ Len(environmentSequence) = 5
        /\ environmentSequence[1] = environmentSequence[5]
        /\ environmentSequence[2] = environmentSequence[4]
        /\ environmentSequence[1] # environmentSequence[2]
        /\ environmentSequence[2] # environmentSequence[3]
        /\ environmentSequence[1] # environmentSequence[3]

\* the return decision comes out Bus, or Taxi
BusHomeStep == takeTaxiOrBus /\ tookBusHome'

TaxiHomeStep == takeTaxiOrBus /\ tookTaxiHome'

\* C16 (as stated): the return mode is chosen independently of the outbound
\* mode; after an outbound Bus the return decision can come out Bus and can
\* come out Taxi, as it can after an outbound Taxi.
C16_ReturnModeIndependent ==
    (pc = "paid" /\ tookBus) => (ENABLED BusHomeStep /\ ENABLED TaxiHomeStep)

\* C16 (amended): each leg's mode is chosen once, and the return mode
\* depends on the outbound mode: the return leg is Bus only after an outbound
\* Taxi, no draws give Bus after an outbound Bus, and Taxi can be chosen
\* after either outbound mode.
C16_ReturnDependsOnOutbound ==
    /\ tookBusHome => (tookTaxi /\ ~tookBus)
    /\ (pc = "paid") => ENABLED TaxiHomeStep
    /\ (pc = "paid" /\ tookBus) => ~ENABLED BusHomeStep
    /\ (pc \in {"returned", "done"}) => (tookBusHome # tookTaxiHome)
    /\ (pc \notin {"returned", "done"}) => (~tookBusHome /\ ~tookTaxiHome)
    /\ (pc # "home") => (tookBus # tookTaxi)

\* the taxi out and the bus home
C16_Witness ==
    /\ pc = "returned"
    /\ tookTaxi
    /\ tookBusHome
    /\ ~tookTaxiHome

\* old is new with zero or more entries appended
IsPrefix(old, new) == Len(old) <= Len(new) /\ SubSeq(new, 1, Len(old)) = old

\* new is old with exactly one entry appended
OneAppended(old, new) == Len(new) = Len(old) + 1 /\ SubSeq(new, 1, Len(old)) = old

\* C17: an iteration that reads l (r, s), in either case, while the flag of
\* eggs (milk, lighter) is false appends exactly one item of that name to the
\* cart, sets that flag and no other, and appends exactly one outcome to the
\* action history; the wallet and the environment history do not change.
C17_PurchaseEffects ==
    [][ReadsLine =>
         /\ (routeDecision' \in {<<"l">>, <<"L">>} /\ ~gotEggs) =>
               /\ OneAppended(shoppingCart, shoppingCart')
               /\ shoppingCart'[Len(shoppingCart')].item = "eggs"
               /\ gotEggs' /\ UNCHANGED <<gotMilk, gotLighter>>
               /\ OneAppended(actionSequence, actionSequence')
               /\ UNCHANGED <<money, environmentSequence>>
         /\ (routeDecision' \in {<<"r">>, <<"R">>} /\ ~gotMilk) =>
               /\ OneAppended(shoppingCart, shoppingCart')
               /\ shoppingCart'[Len(shoppingCart')].item = "milk"
               /\ gotMilk' /\ UNCHANGED <<gotEggs, gotLighter>>
               /\ OneAppended(actionSequence, actionSequence')
               /\ UNCHANGED <<money, environmentSequence>>
         /\ (routeDecision' \in {<<"s">>, <<"S">>} /\ ~gotLighter) =>
               /\ OneAppended(shoppingCart, shoppingCart')
               /\ shoppingCart'[Len(shoppingCart')].item = "lighter"
               /\ gotLighter' /\ UNCHANGED <<gotEggs, gotMilk>>
               /\ OneAppended(actionSequence, actionSequence')
               /\ UNCHANGED <<money, environmentSequence>>]_vars

\* R typed first: local milk in the cart, only gotMilk set
C17_Witness ==
    /\ pc = "shopping"
    /\ routeDecision = <<"R">>
    /\ shoppingCart = <<localMilk>>
    /\ gotMilk /\ ~gotEggs /\ ~gotLighter
    /\ Len(actionSequence) = 2
    /\ money = 7000

\* C18: both histories only grow by appending: every step leaves the old
\* environmentSequence and actionSequence as prefixes of the new ones, and
\* each of the two transit decisions appends exactly one entry to each.
C18_HistoriesAppendOnly ==
    [][/\ IsPrefix(environmentSequence, environmentSequence')
       /\ IsPrefix(actionSequence, actionSequence')
       /\ Len(actionSequence') <= Len(actionSequence) + 1
       /\ Len(environmentSequence') <= Len(environmentSequence) + 1
       /\ (pc = "home" \/ pc = "paid") =>
             /\ OneAppended(environmentSequence, environmentSequence')
             /\ OneAppended(actionSequence, actionSequence')]_vars

\* after the return decision: four environments, five actions
C18_Witness ==
    /\ pc = "returned"
    /\ Len(environmentSequence) = 4
    /\ Len(actionSequence) = 5
    /\ tookTaxiHome

\* the iteration buys an item of the given variant
BuysVariant(type) ==
    /\ chooseRoute
    /\ Len(shoppingCart') = Len(shoppingCart) + 1
    /\ shoppingCart'[Len(shoppingCart')].type = type

\* C19: every purchase decision of a run uses the weights 0.6, -0.3, 0.6,
\* the threshold 1.0 and the bias of the outbound mode, which does not change
\* while the agent shops; the variant bought is brand name exactly when the
\* decision's own localAvailable draw is 0, whatever the cart, the last line
\* and the last message were, and at every prompt before the checklist is
\* complete both variants can still be bought.
C19_NoMemoryInPurchase ==
    /\ [][ReadsLine =>
            /\ UNCHANGED <<tookTaxi, tookBus, branch>>
            /\ (draws' # draws) =>
                  /\ decision'.weights = <<6, -3, 6>>
                  /\ decision'.threshold = 10
                  /\ decision'.bias = (IF tookTaxi THEN -2 ELSE 0)
                  /\ decision'.inputs[1] = 1 /\ decision'.inputs[3] = 1
                  /\ decision'.sum = 12 - 3 * decision'.inputs[2] + decision'.bias
                  /\ shoppingCart'[Len(shoppingCart')].type =
                        (IF decision'.inputs[2] = 0 THEN "brand name" ELSE "local")]_vars
    /\ [](pc = "shopping" =>
             ENABLED BuysVariant("local") /\ ENABLED BuysVariant("brand name"))

\* after the taxi: a local item first, a brand name item last
C19_Witness ==
    /\ branch = "taxi"
    /\ decision.kind = "purchase"
    /\ Len(shoppingCart) = 3
    /\ shoppingCart[1].type = "local"
    /\ shoppingCart[2].type = "local"
    /\ shoppingCart[3].type = "brand name"
    /\ decision.inputs[2] = 0

\* the outbound decision is made on the draws w, t, c
OutboundDraws(w, t, c) == takeBusOrTaxi /\ decision'.inputs = <<1, w, t, c>>

\* the return decision is made on the draws w, t, c and the wallet
ReturnDraws(w, t, c) ==
    takeTaxiOrBus /\ decision'.inputs = <<1, w, t, c, IF money < 4000 THEN 1 ELSE 0>>

\* C20 (as stated): the outbound decision makes three random draws and the
\* return decision makes four.
C20_ThreeAndFourDraws ==
    [][/\ pc = "home" => draws' = draws + 3
       /\ pc = "paid" => draws' = draws + 4]_vars

\* C20 (amended): the outbound decision makes three random draws and the
\* return decision makes three as well (weather, traffic, bus crowding), each
\* combination of values being possible; the fifth input of the return
\* decision, moneyLow, is not drawn but computed from the wallet.
C20_ThreeDrawsEachLeg ==
    /\ [][/\ pc = "home" => draws' = draws + 3 /\ Len(decision'.inputs) = 4
          /\ pc = "paid" =>
                /\ draws' = draws + 3
                /\ Len(decision'.inputs) = 5
                /\ decision'.inputs[5] = (IF money < 4000 THEN 1 ELSE 0)]_vars
    /\ [](pc = "home" =>
             \A w \in {0, 1}, t \in {0, 1}, c \in {0, 1} : ENABLED OutboundDraws(w, t, c))
    /\ [](pc = "paid" =>
             \A w \in {0, 1}, t \in {0, 1}, c \in {0, 1} : ENABLED ReturnDraws(w, t, c))

\* a return decision with the wallet at 40.10: moneyLow is 0
C20_Witness ==
    /\ pc = "returned"
    /\ draws = 9
    /\ decision.inputs = <<1, 1, 1, 1, 0>>
    /\ money = 4010 - 1100

\* C21: an evaluation of input and weight arrays of different lengths is
\* aborted: it does not return, so no evaluation that has returned a sum and
\* taken a branch was one of arrays of different lengths.
C21_MismatchFailsFast ==
    (pc = "evaluated") => Len(decision.inputs) = Len(decision.weights)

\* C22: the energy drink is bought in every run: whatever the outbound mode
\* and the purchases, the wallet after checkout is at least 41.90, the step
\* after checkout never takes the skip branch, and gotEnergyDrink is true
\* from then on, in particular in every final state.
C22_DrinkAlwaysBought ==
    /\ [](pc = "drink" => money >= 4190 /\ ~(money < 4000))
    /\ [][pc = "drink" => gotEnergyDrink' /\ money' = money - 600]_vars
    /\ [](pc \in {"paid", "returned", "done"} => gotEnergyDrink)

\* a run that ends with the drink bought after the costliest checkout
C22_Witness ==
    /\ pc = "done"
    /\ gotEnergyDrink
    /\ tookTaxi
    /\ \A i \in 1..3 : shoppingCart[i].type = "brand name"

\* how many brand name items the cart holds
BrandCount == Cardinality({i \in 1..Len(shoppingCart) : shoppingCart[i].type = "brand name"})

\* C23: money is at least 24.90 in every reachable state; it is 24.90 only
\* at the end of a run with the taxi out, three brand name items, the drink
\* and the taxi home; and the final money is at most 36.20.
C23_WalletBounds ==
    /\ money >= 2490
    /\ (money = 2490) =>
          /\ pc \in {"returned", "done"}
          /\ tookTaxi
          /\ BrandCount = 3
          /\ gotEnergyDrink
          /\ tookTaxiHome
    /\ (pc \in {"returned", "done"}) => money <= 3620

\* the run that ends with the smallest wallet
C23_Witness ==
    /\ pc = "done"
    /\ money = 2490

\* the run that ends with the largest wallet
C23_WitnessMax ==
    /\ pc = "done"
    /\ money = 3620

\* C24: at the return decision the money-low input is 1 exactly when the
\* outbound mode was taxi and at least two of the three items bought are
\* brand name; the agent takes the bus home exactly when that holds and the
\* draws are weather 0, traffic 1, bus crowding 0.
C24_BusHomeCondition ==
    [][pc = "paid" =>
         /\ (decision'.inputs[5] = 1) <=> (tookTaxi /\ BrandCount >= 2)
         /\ tookBusHome' <=>
              /\ tookTaxi
              /\ BrandCount >= 2
              /\ decision'.inputs[2] = 0
              /\ decision'.inputs[3] = 1
              /\ decision'.inputs[4] = 0]_vars

\* the bus home after the taxi out and exactly two brand name items
C24_Witness ==
    /\ pc = "returned"
    /\ tookBusHome
    /\ tookTaxi
    /\ BrandCount = 2
    /\ decision.inputs = <<1, 0, 1, 0, 1>>

\* C25: before the outbound decision tookBus and tookTaxi are both false and
\* from it on exactly one is true and neither changes; before the return
\* decision tookBusHome and tookTaxiHome are both false and from it on
\* exactly one is true and neither changes.
C25_TransitFlagsExclusive ==
    /\ [](pc = "home" => ~tookBus /\ ~tookTaxi)
    /\ [](pc # "home" => (tookBus /\ ~tookTaxi) \/ (tookTaxi /\ ~tookBus))
    /\ [](pc \in {"returned", "done"} =>
             (tookBusHome /\ ~tookTaxiHome) \/ (tookTaxiHome /\ ~tookBusHome))
    /\ [](pc \notin {"returned", "done"} => ~tookBusHome /\ ~tookTaxiHome)
    /\ [][pc # "home" => tookBus' = tookBus /\ tookTaxi' = tookTaxi]_vars
    /\ [][(pc \in {"returned", "done"}) =>
             tookBusHome' = tookBusHome /\ tookTaxiHome' = tookTaxiHome]_vars

\* the bus out and the taxi home
C25_Witness ==
    /\ pc = "done"
    /\ tookBus
    /\ ~tookTaxi
    /\ tookTaxiHome
    /\ ~tookBusHome

\* C26: every entry of the action history is true; while the agent is in
\* the store loop the history has one entry more than there are checklist
\* flags set; and at the end of the program it has five entries.
C26_ActionHistoryAllTrue ==
    /\ \A i \in 1..Len(actionSequence) : actionSequence[i] = TRUE
    /\ (pc = "shopping") =>
          Len(actionSequence) = 1 + Cardinality({sec \in Sections : Flag(sec)})
    /\ (pc \in {"returned", "done"}) => Len(actionSequence) = 5

\* in the loop with milk and the lighter bought and the eggs not yet
C26_Witness ==
    /\ pc = "shopping"
    /\ gotMilk
    /\ gotLighter
    /\ ~gotEggs
    /\ Len(actionSequence) = 3

====
